---- MODULE Spec2Model ----
(***************************************************************************)
(* Order lifecycle of crypto-physical-buyer: the `buy` command (cli.ts),   *)
(* the payment-preparation poller waitForPaymentPreparation (index.ts) and *)
(* the payment signer processPayment (payment.ts).                         *)
(*                                                                         *)
(* A run starts at one of the program's three entry points (mode):         *)
(*   "buy"     the CLI buy action: create, patch, poll, pay, monitor       *)
(*   "poller"  a library call waitForPaymentPreparation(id, key, max)      *)
(*   "signer"  a library call processPayment(order, privateKey)            *)
(* Every await of the source is a step boundary: an action runs from the   *)
(* completion of one awaited call to the next await.                       *)
(*                                                                         *)
(* GatewaySpec is a second specification, of single library calls:         *)
(*   "gateway" one call of createOrder, updateOrderWithShippingAddress or  *)
(*             getOrderStatus (index.ts), down to the HTTP request         *)
(*   "source"  the functions of AmazonSource applied to one identifier     *)
(***************************************************************************)
EXTENDS Naturals, Integers, Sequences, FiniteSets, TLC

VARIABLES
  mode,                 \* entry point of the run
  pc,                   \* position of the single logical flow
  hasKey,               \* process.env.PRIVATE_KEY is set
  hasAddress,           \* options.shippingAddress is set
  status,               \* result.status of buyProductWithCrypto ("" before)
  maxAttempts,          \* waitForPaymentPreparation: maxAttempts argument
  attempts,             \* waitForPaymentPreparation: attempts
  lastPhase,            \* waitForPaymentPreparation: lastPhase
  lastPaymentStatus,    \* waitForPaymentPreparation: lastPaymentStatus
  statusResponse,       \* waitForPaymentPreparation: what getOrderStatus gave this iteration
                        \* (the response, or the error it threw)
  pollResult,           \* value waitForPaymentPreparation resolved with
  pollError,            \* error waitForPaymentPreparation rejected with
  order,                \* processPayment: order argument
  rpcUrl,               \* processPayment: rpcUrl
  tx,                   \* processPayment: tx, the response of sendTransaction
  signError,            \* error processPayment rejected with
  receipt,              \* receipt processPayment resolved with
  monAttempts,          \* buy action, monitor loop: attempts
  currentPhase,         \* buy action, monitor loop: currentPhase
  currentPaymentStatus, \* buy action, monitor loop: currentPaymentStatus
  paymentLog,           \* what the payment stage of the buy action printed last
  getStatusCalls,       \* number of getOrderStatus calls issued so far
  sleeps,               \* number of delays the poller has started
  lastObs,              \* kind of the poller's latest observation
  priorPending,         \* every poller observation before the latest was a pending status
  signerCalls,          \* number of processPayment invocations
  providerOpens,        \* number of JsonRpcProvider connections opened
  sendCalls,            \* number of wallet.sendTransaction calls
  waitCalls,            \* number of tx.wait calls
  monSawReady,          \* the monitor observed a snapshot with a serializedTransaction
  reports,              \* number of "Order Details" reports printed
  createCalls,          \* number of createOrder calls
  patchCalls,           \* number of updateOrderWithShippingAddress calls
  createStatus,         \* quote status createOrder returned ("" before, and on error)
  monLastObs,           \* kind of the monitor's latest observation
  monitorLog,           \* what the monitor loop printed last, apart from the change lines
  finalCalls,           \* number of getOrderStatus calls made for the final order details
  orderDetails,         \* the "Order Details" report printed, if any
  gwArgs,               \* gateway or source call: its arguments
  nodeEnvTest,          \* process.env.NODE_ENV === 'test'
  gwRequests,           \* gateway call: number of HTTP requests issued
  gwRequest,            \* gateway call: the HTTP request issued last
  gwOutcome,            \* gateway call: what the HTTP request came back with
  gwResult,             \* gateway or source call: value returned or error thrown
  pollPrev,             \* poller: the latest observation it got a response for
  changeLog             \* change lines the current iteration of a polling loop printed

gwVars   == <<gwArgs, nodeEnvTest, gwRequests, gwRequest, gwOutcome, gwResult>>
runVars  == <<mode, hasKey, hasAddress, createCalls, patchCalls, createStatus, gwVars>>
ctxVars  == <<runVars, status, paymentLog>>
pollVars == <<maxAttempts, attempts, lastPhase, lastPaymentStatus, statusResponse,
              pollResult, pollError, sleeps, lastObs, priorPending, pollPrev>>
signVars == <<order, rpcUrl, tx, signError, receipt, signerCalls, providerOpens,
              sendCalls, waitCalls>>
monVars  == <<monAttempts, currentPhase, currentPaymentStatus, monSawReady, reports,
              monLastObs, monitorLog, finalCalls, orderDetails>>
vars == <<pc, ctxVars, pollVars, signVars, monVars, getStatusCalls, changeLog>>

----------------------------------------------------------------------------
(* Bounds of the model *)

\* Largest maxAttempts a direct caller passes to waitForPaymentPreparation.
MaxAttemptsArg == 3

\* How far below zero the maxAttempts of a direct caller goes.
NegativeAttemptsArg == 1

(* Program constants *)

DEFAULT_POLLING_MAX_ATTEMPTS == 15
MonitorMaxAttempts == 10

----------------------------------------------------------------------------
(* Values *)

None == [kind |-> "none"]

\* order.payment.preparation: absent, present without the field, present with
\* an empty, a well-formed or a malformed serializedTransaction.
NoPreparation == [present |-> FALSE, hasField |-> FALSE, serializedTransaction |-> ""]
BarePreparation == [present |-> TRUE, hasField |-> FALSE, serializedTransaction |-> ""]
EmptyPreparation == [present |-> TRUE, hasField |-> TRUE, serializedTransaction |-> ""]
ReadyPreparation == [present |-> TRUE, hasField |-> TRUE, serializedTransaction |-> "0x02f8"]
MalformedPreparation == [present |-> TRUE, hasField |-> TRUE, serializedTransaction |-> "zz"]
Preparations ==
  {NoPreparation, BarePreparation, EmptyPreparation, ReadyPreparation, MalformedPreparation}

\* "" stands for an absent (or empty) field: both are falsy in the source.
Phases == {"", "payment", "complete", "completed"}
PaymentStatuses ==
  {"", "awaiting-payment", "failed", "canceled", "crypto-payer-insufficient-funds", "completed"}
QuoteStatuses == {"valid", "requires-physical-address"}
CreateQuoteStatuses == {"valid", "requires-physical-address", "expired"}
Methods == {"base", "base-sepolia", "polygon", "polygon-amoy", "xyz"}

MkOrder(ph, ps, m, prep, qs) ==
  [phase |-> ph,
   payment |-> [status |-> ps, method |-> m, preparation |-> prep],
   quote |-> [status |-> qs]]

\* Orders a direct caller hands to processPayment.
Orders ==
  {MkOrder(ph, ps, m, prep, qs) :
     ph \in {"payment"}, ps \in PaymentStatuses, m \in Methods,
     prep \in Preparations, qs \in QuoteStatuses}

\* Orders the checkout service reports to the poller.
PollOrders ==
  {MkOrder(ph, ps, m, prep, qs) :
     ph \in Phases, ps \in PaymentStatuses, m \in {"polygon-amoy", "base"},
     prep \in Preparations, qs \in QuoteStatuses}

\* Orders the checkout service reports to the monitor, which reads only
\* phase and payment.status.
MonitorOrders ==
  {MkOrder(ph, ps, "polygon-amoy", prep, "valid") :
     ph \in Phases, ps \in {"", "awaiting-payment", "failed", "completed"},
     prep \in {NoPreparation, ReadyPreparation}}

Response(o) == [kind |-> "response", order |-> o]

\* Failures of a gateway call: a non-success response, or no response at all.
RemoteErrors ==
  {[kind |-> "error", error |-> "RemoteRequestFailed", status |-> 500],
   [kind |-> "error", error |-> "RemoteUnreachable"]}

\* What one getOrderStatus call of the poller can come back with.
PollOutcomes == {Response(o) : o \in PollOrders} \cup RemoteErrors

\* Failures of the chain client.
ChainErrors ==
  {[kind |-> "error", error |-> "ChainError", reason |-> "nonce too low"],
   [kind |-> "error", error |-> "ChainError", reason |-> "timeout"]}

Transactions == {[kind |-> "tx", hash |-> "0xabc"]}

Receipts == {[kind |-> "receipt", transactionHash |-> "0xabc", blockNumber |-> 7]}

----------------------------------------------------------------------------
(* waitForPaymentPreparation *)

\* a || d on strings
OrDefault(a, d) == IF a # "" THEN a ELSE d

\* statusResponse.order || statusResponse
OrderOf(resp) == resp.order

\* Variant of IsReady that does not count the payload of an order whose payment
\* status is failed or canceled.
IsReadyUnlessTerminal(o) ==
  /\ o.payment.preparation.present
  /\ o.payment.preparation.hasField
  /\ o.payment.preparation.serializedTransaction # ""
  /\ o.payment.status \notin {"failed", "canceled"}

\* Variant of IsReady that is satisfied by the preparation object alone.
IsReadyOnPreparation(o) == o.payment.preparation.present

\* order.payment?.preparation?.serializedTransaction is truthy
IsReady(o) ==
  /\ o.payment.preparation.present
  /\ o.payment.preparation.hasField
  /\ o.payment.preparation.serializedTransaction # ""

\* order.payment?.status === 'failed' || order.payment?.status === 'canceled'
IsTerminalFailure(o) == o.payment.status \in {"failed", "canceled"}

\* What a polling loop read from a response, before the defaults are applied.
Observation(o) == [kind |-> "order", phase |-> o.phase, paymentStatus |-> o.payment.status]

\* Variant of ChangeLines that prints both lines for every observation.
ChangeLinesAlways(phase, lastPh, paymentStatus, lastPs) ==
  {"Order phase", "Payment status"}

\* The lines the two `if (... !== ...) console.log(...)` of a polling loop print.
ChangeLines(phase, lastPh, paymentStatus, lastPs) ==
  (IF phase # lastPh THEN {"Order phase"} ELSE {}) \cup
  (IF paymentStatus # lastPs THEN {"Payment status"} ELSE {})

TerminalError(o) ==
  [kind |-> "error", error |-> "PaymentTerminallyFailed", status |-> o.payment.status]

TimeoutError(max) ==
  [kind |-> "error", error |-> "PreparationTimeout", maxAttempts |-> max]

\* Variant of TryBody that tests the terminal payment status before the payload.
TryBodyTerminalFirst(resp, lp, ls) ==
  LET o == OrderOf(resp)
      cp == OrDefault(o.phase, "unknown")
      cs == OrDefault(o.payment.status, "unknown")
  IN [lastPhase |-> IF cp # lp THEN cp ELSE lp,
      lastPaymentStatus |-> IF cs # ls THEN cs ELSE ls,
      printed |-> ChangeLines(cp, lp, cs, ls),
      exit |-> IF IsTerminalFailure(o) THEN "throw"
               ELSE IF IsReady(o) THEN "return"
               ELSE "sleep",
      error |-> IF IsTerminalFailure(o) THEN TerminalError(o) ELSE None]

\* The try block of one iteration, from the response to its exit: the change-only
\* logging, then return, throw or sleep.
TryBody(resp, lp, ls) ==
  LET o == OrderOf(resp)
      cp == OrDefault(o.phase, "unknown")
      cs == OrDefault(o.payment.status, "unknown")
  IN [lastPhase |-> IF cp # lp THEN cp ELSE lp,
      lastPaymentStatus |-> IF cs # ls THEN cs ELSE ls,
      printed |-> ChangeLines(cp, lp, cs, ls),
      exit |-> IF IsReady(o) THEN "return"
               ELSE IF IsTerminalFailure(o) THEN "throw"
               ELSE "sleep",
      error |-> IF ~IsReady(o) /\ IsTerminalFailure(o) THEN TerminalError(o) ELSE None]

\* Variant of Rethrows that lets every caught error escape.
RethrowsAlways(att, max) == TRUE

\* catch (error) { if (attempts >= maxAttempts) throw error; ... }
Rethrows(att, max) == att >= max

\* Kind of a getOrderStatus outcome as the service produced it: an error, a
\* snapshot with a non-empty serializedTransaction ("ready"), one without it and
\* with payment status failed or canceled ("terminal"), or any other ("pending").
ObsKind(r) ==
  IF r.kind = "error" THEN "error"
  ELSE IF r.order.payment.preparation \in {ReadyPreparation, MalformedPreparation} THEN "ready"
  ELSE IF r.order.payment.status \in {"failed", "canceled"} THEN "terminal"
  ELSE "pending"

\* Variant of LoopContinues that runs one iteration too many.
LoopContinuesOffByOne(att, max) == att <= max

\* Variant of LoopContinues that stops only when the counter meets the budget.
LoopContinuesUntilEqual(att, max) == att # max

\* while (attempts < maxAttempts)
LoopContinues(att, max) == att < max

\* One loop iteration: attempts++, getOrderStatus, the try body and the catch.
PollGetStatus ==
  /\ pc = "poll_loop"
  /\ LoopContinues(attempts, maxAttempts)
  /\ \E r \in PollOutcomes :
       LET att == attempts + 1
           body == TryBody(r, lastPhase, lastPaymentStatus)
           thrown == IF r.kind = "error" THEN r
                     ELSE IF body.exit = "throw" THEN body.error
                     ELSE None
       IN /\ attempts' = att
          /\ getStatusCalls' = getStatusCalls + 1
          /\ statusResponse' = r
          /\ lastObs' = ObsKind(r)
          /\ priorPending' = (priorPending /\ lastObs \in {"none", "pending"})
          /\ lastPhase' = IF r.kind = "error" THEN lastPhase ELSE body.lastPhase
          /\ lastPaymentStatus' =
               IF r.kind = "error" THEN lastPaymentStatus ELSE body.lastPaymentStatus
          /\ changeLog' = IF r.kind = "error" THEN {} ELSE body.printed
          /\ pollPrev' = IF r.kind = "error" THEN pollPrev ELSE Observation(OrderOf(r))
          /\ IF thrown = None
               THEN IF body.exit = "return"
                      THEN /\ pc' = "poll_done"
                           /\ pollResult' = r
                           /\ UNCHANGED pollError
                      ELSE /\ pc' = "poll_sleep"
                           /\ UNCHANGED <<pollResult, pollError>>
               ELSE IF Rethrows(att, maxAttempts)
                      THEN /\ pc' = "poll_done"
                           /\ pollError' = thrown
                           /\ UNCHANGED pollResult
                      ELSE /\ pc' = "poll_sleep"
                           /\ UNCHANGED <<pollResult, pollError>>
  /\ UNCHANGED <<ctxVars, signVars, monVars, maxAttempts, sleeps>>

\* Variant of PollSleep that delays twice before the next call, as a delay in
\* the try block followed by a second one in a finally block would.
PollSleepTwice ==
  /\ pc = "poll_sleep"
  /\ sleeps' = sleeps + 2
  /\ statusResponse' = None
  /\ changeLog' = {}
  /\ pc' = "poll_loop"
  /\ UNCHANGED <<ctxVars, signVars, monVars, getStatusCalls, maxAttempts, attempts,
                 lastPhase, lastPaymentStatus, pollResult, pollError, lastObs, priorPending,
                 pollPrev>>

\* await new Promise(resolve => setTimeout(resolve, delayMs)), in the try block
\* or in the catch block; the iteration's response goes out of scope.
PollSleep ==
  /\ pc = "poll_sleep"
  /\ sleeps' = sleeps + 1
  /\ statusResponse' = None
  /\ changeLog' = {}
  /\ pc' = "poll_loop"
  /\ UNCHANGED <<ctxVars, signVars, monVars, getStatusCalls, maxAttempts, attempts,
                 lastPhase, lastPaymentStatus, pollResult, pollError, lastObs, priorPending,
                 pollPrev>>

\* The loop condition fails: throw new Error(`Payment preparation not available ...`)
PollTimeout ==
  /\ pc = "poll_loop"
  /\ ~LoopContinues(attempts, maxAttempts)
  /\ pollError' = TimeoutError(maxAttempts)
  /\ pc' = "poll_done"
  /\ UNCHANGED <<ctxVars, signVars, monVars, getStatusCalls, changeLog, maxAttempts,
                 attempts, lastPhase, lastPaymentStatus, statusResponse, pollResult,
                 sleeps, lastObs, priorPending, pollPrev>>

----------------------------------------------------------------------------
(* processPayment *)

\* The serializedTransaction the signer reads ("" when it reads undefined).
SerializedTransactionOf(o) ==
  IF o.payment.preparation.present /\ o.payment.preparation.hasField
    THEN o.payment.preparation.serializedTransaction
    ELSE ""

\* Variant of PreconditionError without the insufficient-funds check.
PreconditionErrorNoFundsCheck(o) ==
  IF o.quote.status = "requires-physical-address"
    THEN [kind |-> "error", error |-> "AddressRequired"]
  ELSE IF SerializedTransactionOf(o) = ""
    THEN [kind |-> "error", error |-> "PaymentPayloadMissing", order |-> o]
  ELSE None

\* Variant of PreconditionError that tests the address before the funds.
PreconditionErrorAddressFirst(o) ==
  IF o.quote.status = "requires-physical-address"
    THEN [kind |-> "error", error |-> "AddressRequired"]
  ELSE IF o.payment.status = "crypto-payer-insufficient-funds"
    THEN [kind |-> "error", error |-> "InsufficientFunds"]
  ELSE IF SerializedTransactionOf(o) = ""
    THEN [kind |-> "error", error |-> "PaymentPayloadMissing", order |-> o]
  ELSE None

\* Variant of PreconditionError that also wants the payment status to be
\* 'awaiting-payment' before it lets the payload through.
PreconditionErrorRequiresAwaiting(o) ==
  IF o.payment.status = "crypto-payer-insufficient-funds"
    THEN [kind |-> "error", error |-> "InsufficientFunds"]
  ELSE IF o.quote.status = "requires-physical-address"
    THEN [kind |-> "error", error |-> "AddressRequired"]
  ELSE IF SerializedTransactionOf(o) = "" \/ o.payment.status # "awaiting-payment"
    THEN [kind |-> "error", error |-> "PaymentPayloadMissing", order |-> o]
  ELSE None

\* The checks made before any chain call, in source order; None when all pass.
PreconditionError(o) ==
  IF o.payment.status = "crypto-payer-insufficient-funds"
    THEN [kind |-> "error", error |-> "InsufficientFunds"]
  ELSE IF o.quote.status = "requires-physical-address"
    THEN [kind |-> "error", error |-> "AddressRequired"]
  ELSE IF SerializedTransactionOf(o) = ""
    THEN [kind |-> "error", error |-> "PaymentPayloadMissing", order |-> o]
  ELSE None

\* Variant of ResolveRpcUrl whose fallback is the Polygon mainnet endpoint.
ResolveRpcUrlMainnetDefault(method) ==
  IF method = "base" THEN "https://mainnet.base.org"
  ELSE IF method = "base-sepolia" THEN "https://sepolia.base.org"
  ELSE IF method = "polygon-amoy" THEN "https://rpc-amoy.polygon.technology/"
  ELSE "https://polygon-rpc.com/"

\* The RPC endpoint chosen from order.payment.method.
ResolveRpcUrl(method) ==
  IF method = "base" THEN "https://mainnet.base.org"
  ELSE IF method = "base-sepolia" THEN "https://sepolia.base.org"
  ELSE IF method = "polygon" THEN "https://polygon-rpc.com/"
  ELSE IF method = "polygon-amoy" THEN "https://rpc-amoy.polygon.technology/"
  ELSE "https://rpc-amoy.polygon.technology/"

\* ethers.utils.parseTransaction accepts the payload (it throws on a malformed one).
Parses(st) == st = "0x02f8"

ParseError == [kind |-> "error", error |-> "ChainError", reason |-> "invalid raw transaction"]

\* From the call to the first await: the preconditions, the endpoint, the
\* provider and wallet, and the decoding of the payload.
ProcessPaymentBegin ==
  /\ pc = "pay_begin"
  /\ signerCalls' = signerCalls + 1
  /\ IF PreconditionError(order) # None
       THEN /\ signError' = PreconditionError(order)
            /\ pc' = "pay_done"
            /\ UNCHANGED <<rpcUrl, providerOpens>>
       ELSE /\ rpcUrl' = ResolveRpcUrl(order.payment.method)
            /\ providerOpens' = providerOpens + 1
            /\ IF Parses(SerializedTransactionOf(order))
                 THEN pc' = "pay_send" /\ UNCHANGED signError
                 ELSE pc' = "pay_done" /\ signError' = ParseError
  /\ UNCHANGED <<ctxVars, pollVars, monVars,
                 getStatusCalls, changeLog, order, tx, receipt, sendCalls, waitCalls>>

\* Variant of SendTransaction that sends again after a failed send.
SendTransactionRetries ==
  /\ pc = "pay_send"
  /\ sendCalls' = sendCalls + 1
  /\ \/ \E t \in Transactions : tx' = t /\ pc' = "pay_wait"
     \/ pc' = "pay_send" /\ UNCHANGED tx
  /\ UNCHANGED <<ctxVars, pollVars, monVars,
                 getStatusCalls, changeLog, order, rpcUrl, signError, receipt, signerCalls,
                 providerOpens, waitCalls>>

\* await wallet.sendTransaction(parsedTransaction): accepted by the node, or an
\* error that the catch block logs and rethrows.
SendTransaction ==
  /\ pc = "pay_send"
  /\ sendCalls' = sendCalls + 1
  /\ \/ \E t \in Transactions : tx' = t /\ pc' = "pay_wait" /\ UNCHANGED signError
     \/ \E e \in ChainErrors : signError' = e /\ pc' = "pay_done" /\ UNCHANGED tx
  /\ UNCHANGED <<ctxVars, pollVars, monVars,
                 getStatusCalls, changeLog, order, rpcUrl, receipt, signerCalls, providerOpens,
                 waitCalls>>

\* await tx.wait(): the receipt, or an error that the catch block rethrows.
WaitConfirmation ==
  /\ pc = "pay_wait"
  /\ waitCalls' = waitCalls + 1
  /\ \/ \E rc \in Receipts : receipt' = rc /\ UNCHANGED signError
     \/ \E e \in ChainErrors : signError' = e /\ UNCHANGED receipt
  /\ pc' = "pay_done"
  /\ UNCHANGED <<ctxVars, pollVars, monVars,
                 getStatusCalls, changeLog, order, rpcUrl, tx, signerCalls, providerOpens, sendCalls>>

----------------------------------------------------------------------------
(* buyProductWithCrypto and the buy action of the CLI *)

\* Locals of waitForPaymentPreparation at its call.
PollerStart(max) ==
  /\ maxAttempts = max
  /\ attempts = 0
  /\ lastPhase = ""
  /\ lastPaymentStatus = ""
  /\ statusResponse = None
  /\ pollResult = None
  /\ pollError = None
  /\ sleeps = 0
  /\ lastObs = "none"
  /\ priorPending = TRUE
  /\ pollPrev = None

SignerIdle ==
  /\ rpcUrl = ""
  /\ tx = None
  /\ signError = None
  /\ receipt = None
  /\ signerCalls = 0
  /\ providerOpens = 0
  /\ sendCalls = 0
  /\ waitCalls = 0

MonitorStart ==
  /\ monAttempts = 0
  /\ currentPhase = "created"
  /\ currentPaymentStatus = "unknown"
  /\ monSawReady = FALSE
  /\ reports = 0
  /\ monLastObs = None
  /\ monitorLog = ""
  /\ finalCalls = 0
  /\ orderDetails = None

\* Variant of ResultNext that goes on to the payment stage whatever the quote
\* status is.
ResultNextAnyStatus(st, key) ==
  IF key THEN "poll_loop" ELSE "mon_loop"

\* Variant of ResultNext that treats every status other than
\* 'requires-physical-address' as 'valid'.
ResultNextUnlessAddress(st, key) ==
  IF st # "requires-physical-address" THEN (IF key THEN "poll_loop" ELSE "mon_loop")
  ELSE "done"

\* Where the buy action goes once buyProductWithCrypto has returned `st`:
\* the poller, the monitor loop, or the end of the action.
ResultNext(st, key) ==
  IF st = "valid" THEN (IF key THEN "poll_loop" ELSE "mon_loop") ELSE "done"

\* What the buy action prints about the result, after "Order created
\* successfully!", before it reaches the next await or its end.
ResultLog(st, key) ==
  IF st = "requires-physical-address" THEN "This order requires a shipping address"
  ELSE IF st = "valid"
    THEN (IF key THEN "Order is valid and ready for payment"
          ELSE "No private key provided")
  ELSE ""

\* Variant of NeedsPatch that does not look at the shipping address.
NeedsPatchWithoutAddress(q, address) == q = "requires-physical-address"

\* status === 'requires-physical-address' && options.shippingAddress
NeedsPatch(q, address) == q = "requires-physical-address" /\ address

\* Variant of CreateOrder that calls createOrder again when it failed.
CreateOrderRetries ==
  /\ pc = "create"
  /\ createCalls' = createCalls + 1
  /\ \/ \E e \in RemoteErrors :
          pc' = "create" /\ UNCHANGED <<status, createStatus, paymentLog>>
     \/ \E q \in CreateQuoteStatuses :
          /\ status' = q
          /\ createStatus' = q
          /\ IF NeedsPatch(q, hasAddress)
               THEN pc' = "patch" /\ UNCHANGED paymentLog
               ELSE pc' = ResultNext(q, hasKey) /\ paymentLog' = ResultLog(q, hasKey)
  /\ UNCHANGED <<mode, hasKey, hasAddress, patchCalls, gwVars, pollVars, signVars,
                 monVars, getStatusCalls, changeLog>>

\* await createOrder(options), then the address branch of buyProductWithCrypto;
\* an error reaches the catch of the buy action, which exits with code 1.
CreateOrder ==
  /\ pc = "create"
  /\ createCalls' = createCalls + 1
  /\ \/ \E e \in RemoteErrors :
          pc' = "exit1" /\ UNCHANGED <<status, createStatus, paymentLog>>
     \/ \E q \in CreateQuoteStatuses :
          /\ status' = q
          /\ createStatus' = q
          /\ IF NeedsPatch(q, hasAddress)
               THEN pc' = "patch" /\ UNCHANGED paymentLog
               ELSE pc' = ResultNext(q, hasKey) /\ paymentLog' = ResultLog(q, hasKey)
  /\ UNCHANGED <<mode, hasKey, hasAddress, patchCalls, gwVars, pollVars, signVars,
                 monVars, getStatusCalls, changeLog>>

\* await updateOrderWithShippingAddress(...), then the return of buyProductWithCrypto.
PatchOrder ==
  /\ pc = "patch"
  /\ patchCalls' = patchCalls + 1
  /\ \/ \E e \in RemoteErrors : pc' = "exit1" /\ UNCHANGED <<status, paymentLog>>
     \/ \E q \in CreateQuoteStatuses :
          /\ status' = q
          /\ pc' = ResultNext(q, hasKey)
          /\ paymentLog' = ResultLog(q, hasKey)
  /\ UNCHANGED <<mode, hasKey, hasAddress, createCalls, createStatus, gwVars, pollVars,
                 signVars, monVars, getStatusCalls, changeLog>>

\* Variant of PaymentStageAfterPoller that does not await processPayment: the
\* action goes on to the monitor loop while the payment is in flight.
PaymentStageAfterPollerNoAwait ==
  /\ mode = "buy"
  /\ pc = "poll_done"
  /\ IF pollError # None
       THEN /\ paymentLog' = "Error processing payment"
            /\ UNCHANGED order
       ELSE /\ order' = OrderOf(pollResult)
            /\ paymentLog' = "Processing payment..."
  /\ pc' = "mon_loop"
  /\ attempts' = 0
  /\ lastPhase' = ""
  /\ lastPaymentStatus' = ""
  /\ statusResponse' = None
  /\ pollResult' = None
  /\ pollError' = None
  /\ sleeps' = 0
  /\ lastObs' = "none"
  /\ priorPending' = TRUE
  /\ pollPrev' = None
  /\ changeLog' = {}
  /\ UNCHANGED <<runVars, status, monVars, getStatusCalls, rpcUrl, tx, maxAttempts,
                 signError, receipt, signerCalls, providerOpens, sendCalls, waitCalls>>

\* The payment stage after waitForPaymentPreparation settled: processPayment is
\* called with the returned order, or the catch block logs the error and the
\* action goes on to the monitor loop. The poller's locals are gone.
PaymentStageAfterPoller ==
  /\ mode = "buy"
  /\ pc = "poll_done"
  /\ IF pollError # None
       THEN /\ paymentLog' = "Error processing payment"
            /\ pc' = "mon_loop"
            /\ UNCHANGED order
       ELSE /\ order' = OrderOf(pollResult)
            /\ paymentLog' = "Processing payment..."
            /\ pc' = "pay_begin"
  /\ attempts' = 0
  /\ lastPhase' = ""
  /\ lastPaymentStatus' = ""
  /\ statusResponse' = None
  /\ pollResult' = None
  /\ pollError' = None
  /\ sleeps' = 0
  /\ lastObs' = "none"
  /\ priorPending' = TRUE
  /\ pollPrev' = None
  /\ changeLog' = {}
  /\ UNCHANGED <<runVars, status, monVars, getStatusCalls, rpcUrl, tx, maxAttempts,
                 signError, receipt, signerCalls, providerOpens, sendCalls, waitCalls>>

\* Variant of PaymentStageAfterSigner that calls processPayment again, with the
\* same snapshot, when it failed.
PaymentStageAfterSignerRetries ==
  /\ mode = "buy"
  /\ pc = "pay_done"
  /\ IF signError = None
       THEN /\ paymentLog' = "Payment processed successfully!"
            /\ pc' = "mon_loop"
            /\ order' = None
       ELSE /\ paymentLog' = "Error processing payment"
            /\ pc' = "pay_begin"
            /\ UNCHANGED order
  /\ rpcUrl' = ""
  /\ tx' = None
  /\ signError' = None
  /\ receipt' = None
  /\ UNCHANGED <<runVars, status, pollVars, monVars, getStatusCalls, changeLog,
                 signerCalls, providerOpens, sendCalls, waitCalls>>

\* The payment stage after processPayment settled: success is logged, or the catch
\* block logs the error; either way the action goes on to the monitor loop.
PaymentStageAfterSigner ==
  /\ mode = "buy"
  /\ pc = "pay_done"
  /\ paymentLog' = IF signError = None THEN "Payment processed successfully!"
                   ELSE "Error processing payment"
  /\ pc' = "mon_loop"
  /\ order' = None
  /\ rpcUrl' = ""
  /\ tx' = None
  /\ signError' = None
  /\ receipt' = None
  /\ UNCHANGED <<runVars, status, pollVars, monVars, getStatusCalls, changeLog,
                 signerCalls, providerOpens, sendCalls, waitCalls>>

\* Variant of MonitorStops that looks at the payment status only.
MonitorStopsOnStatusOnly(phase, paymentStatus) == paymentStatus = "completed"

\* Variant of MonitorStops that tests the phase against 'completed'.
MonitorStopsOnCompletedPhase(phase, paymentStatus) ==
  paymentStatus = "completed" \/ phase = "completed"

\* paymentStatus === 'completed' || phase === 'complete'
MonitorStops(phase, paymentStatus) == paymentStatus = "completed" \/ phase = "complete"

\* One iteration of the monitor loop up to its await: attempts++, getOrderStatus,
\* the change-only logging and the stop test; an error breaks out of the loop.
MonitorGetStatus ==
  /\ pc = "mon_loop"
  /\ monAttempts < MonitorMaxAttempts
  /\ monAttempts' = monAttempts + 1
  /\ getStatusCalls' = getStatusCalls + 1
  /\ \/ \E e \in RemoteErrors :
          /\ pc' = "done"
          /\ monLastObs' = [kind |-> "error"]
          /\ monitorLog' = "Error checking order status"
          /\ changeLog' = {}
          /\ UNCHANGED <<currentPhase, currentPaymentStatus, monSawReady>>
     \/ \E o \in MonitorOrders :
          LET phase == OrDefault(o.phase, "unknown")
              paymentStatus == OrDefault(o.payment.status, "unknown")
          IN /\ currentPhase' = IF phase # currentPhase THEN phase ELSE currentPhase
             /\ currentPaymentStatus' =
                  IF paymentStatus # currentPaymentStatus THEN paymentStatus
                  ELSE currentPaymentStatus
             /\ monSawReady' = (monSawReady \/ IsReady(o))
             /\ monLastObs' = Observation(o)
             /\ changeLog' = ChangeLines(phase, currentPhase, paymentStatus, currentPaymentStatus)
             /\ pc' = IF MonitorStops(phase, paymentStatus) THEN "mon_final" ELSE "mon_sleep"
             /\ UNCHANGED monitorLog
  /\ UNCHANGED <<ctxVars, pollVars, signVars, reports, finalCalls, orderDetails>>

\* Variant of MonitorSleep after which the loop counts from zero again, as a
\* counter declared inside the loop body would.
MonitorSleepForgetsCount ==
  /\ pc = "mon_sleep"
  /\ changeLog' = {}
  /\ monAttempts' = 0
  /\ pc' = "mon_loop"
  /\ UNCHANGED <<ctxVars, pollVars, signVars, getStatusCalls, currentPhase,
                 currentPaymentStatus, monSawReady, reports, monLastObs, monitorLog,
                 finalCalls, orderDetails>>

\* await new Promise(resolve => setTimeout(resolve, 5000))
MonitorSleep ==
  /\ pc = "mon_sleep"
  /\ changeLog' = {}
  /\ pc' = "mon_loop"
  /\ UNCHANGED <<ctxVars, pollVars, signVars,
                 monVars, getStatusCalls>>

\* Snapshots the extra getOrderStatus call of the stop branch comes back with;
\* the branch reads nothing of them but quote.totalPrice.
FinalOrders ==
  {o \in MonitorOrders : o.phase = "complete" /\ o.payment.status = "completed"}

\* quote.totalPrice of the final snapshot: absent, or an amount and a currency.
NoTotalPrice == [amount |-> "", currency |-> ""]
TotalPrices == {NoTotalPrice, [amount |-> "12.50", currency |-> "usdc"]}

\* The fields of the "Order Details" report that depend on the final snapshot
\* and on the shipping address option, with their placeholders.
OrderDetails(totalPrice, address) ==
  [kind |-> "report",
   totalPrice |-> OrDefault(totalPrice.amount, "9.79"),
   currency |-> OrDefault(totalPrice.currency, "USDC"),
   recipientName |-> IF address THEN "name" ELSE "Name not available",
   formattedAddress |-> IF address THEN "address" ELSE "Address not available"]

\* Variant of MonitorFinal without the inner try: an error of the extra call
\* reaches the catch of the buy action, which exits with code 1.
MonitorFinalErrorEscapes ==
  /\ pc = "mon_final"
  /\ getStatusCalls' = getStatusCalls + 1
  /\ changeLog' = {}
  /\ finalCalls' = finalCalls + 1
  /\ \/ \E e \in RemoteErrors :
          /\ monitorLog' = "Error"
          /\ pc' = "exit1"
          /\ UNCHANGED <<reports, monSawReady, orderDetails>>
     \/ \E o \in FinalOrders, price \in TotalPrices :
          /\ reports' = reports + 1
          /\ monSawReady' = (monSawReady \/ IsReady(o))
          /\ orderDetails' = OrderDetails(price, hasAddress)
          /\ monitorLog' = "Order Details"
          /\ pc' = "done"
  /\ UNCHANGED <<ctxVars, pollVars, signVars,
                 monAttempts, currentPhase, currentPaymentStatus, monLastObs>>

\* The stop branch: one more getOrderStatus; the report is printed, or the inner
\* catch logs the error; then break.
MonitorFinal ==
  /\ pc = "mon_final"
  /\ getStatusCalls' = getStatusCalls + 1
  /\ changeLog' = {}
  /\ finalCalls' = finalCalls + 1
  /\ \/ \E e \in RemoteErrors :
          /\ monitorLog' = "Error retrieving final order details"
          /\ UNCHANGED <<reports, monSawReady, orderDetails>>
     \/ \E o \in FinalOrders, price \in TotalPrices :
          /\ reports' = reports + 1
          /\ monSawReady' = (monSawReady \/ IsReady(o))
          /\ orderDetails' = OrderDetails(price, hasAddress)
          /\ monitorLog' = "Order Details"
  /\ pc' = "done"
  /\ UNCHANGED <<ctxVars, pollVars, signVars,
                 monAttempts, currentPhase, currentPaymentStatus, monLastObs>>

\* The loop condition of the monitor fails: the action ends.
MonitorExhausted ==
  /\ pc = "mon_loop"
  /\ ~(monAttempts < MonitorMaxAttempts)
  /\ pc' = "done"
  /\ UNCHANGED <<ctxVars, pollVars, signVars,
                 monVars, getStatusCalls, changeLog>>

----------------------------------------------------------------------------
(* AmazonSource: strings are sequences of characters *)

\* [A-Z0-9]
UpperAlnum ==
  {"A", "B", "C", "D", "E", "F", "G", "H", "I", "J", "K", "L", "M",
   "N", "O", "P", "Q", "R", "S", "T", "U", "V", "W", "X", "Y", "Z",
   "0", "1", "2", "3", "4", "5", "6", "7", "8", "9"}

\* null; no string equals it.
Null == <<"null">>

Host ==
  <<"h", "t", "t", "p", "s", ":", "/", "/", "w", "w", "w", ".", "a", "m",
    "a", "z", "o", "n", ".", "c", "o", "m">>

\* Path segments: two well-formed codes, a lower-case one, one of 9 and one of
\* 11 characters, and two ordinary segments.
Asin ==
  <<"B", "0", "1", "D", "F", "K", "C", "2", "S", "O">>
OtherCode ==
  <<"K", "I", "N", "D", "L", "E", "2", "0", "2", "4">>
LowerCode ==
  <<"b", "0", "1", "d", "f", "k", "c", "2", "s", "o">>
ShortCode ==
  <<"B", "0", "1", "D", "F", "K", "C", "2", "S">>
LongCode ==
  <<"B", "0", "1", "D", "F", "K", "C", "2", "S", "O", "1">>
Dp ==
  <<"d", "p">>
ProductName ==
  <<"P", "r", "o", "d", "u", "c", "t", "-", "N", "a", "m", "e">>

Segments == {Asin, OtherCode, LowerCode, ShortCode, LongCode, Dp, ProductName}

\* Largest number of path segments of a URL.
MaxPathSegments == 3

\* The paths of exactly n segments.
RECURSIVE Paths(_)
Paths(n) ==
  IF n = 0 THEN {<<>>}
  ELSE {path \o <<"/">> \o seg : path \in Paths(n - 1), seg \in Segments}

\* What follows the path: nothing, a slash, or a query string.
Tails == {<<>>, <<"/">>, <<"?", "r", "e", "f", "=", "1">>}

UrlsOfLength(n) == {Host \o path \o tail : path \in Paths(n), tail \in Tails}

Urls == UNION {UrlsOfLength(n) : n \in 1..MaxPathSegments}

BareIdentifiers == {Asin, OtherCode, LowerCode, ShortCode, LongCode, ProductName}

Identifiers == Urls \cup BareIdentifiers

\* /\/([A-Z0-9]{10})(?:\/|\?|$)/ matches at position i of s.
MatchesAt(s, i) ==
  /\ s[i] = "/"
  /\ i + 10 <= Len(s)
  /\ \A k \in 1..10 : s[i + k] \in UpperAlnum
  /\ (i + 10 = Len(s) \/ s[i + 11] \in {"/", "?"})

\* url.match(asinPattern): the capture group of the leftmost match, or null.
ExtractProductId(url) ==
  LET at == {i \in 1..Len(url) : MatchesAt(url, i)}
  IN IF at = {} THEN Null
     ELSE LET i == CHOOSE j \in at : \A k \in at : j <= k
          IN SubSeq(url, i + 1, i + 10)

AmazonPrefix == <<"a", "m", "a", "z", "o", "n", ":">>

\* Variant of CreateProductLocator that puts the identifier itself into the
\* locator, whatever isUrl is.
CreateProductLocatorOfIdentifier(identifier, isUrl) == AmazonPrefix \o identifier

\* AmazonSource.createProductLocator
CreateProductLocator(identifier, isUrl) ==
  IF isUrl
    THEN LET asin == ExtractProductId(identifier)
         IN IF asin # Null /\ asin # <<>> THEN AmazonPrefix \o asin
            ELSE AmazonPrefix \o identifier
    ELSE AmazonPrefix \o identifier

\* Variant of ValidateIdentifier that accepts an id by its length alone.
ValidateIdentifierByLength(identifier, isUrl) ==
  IF isUrl THEN ExtractProductId(identifier) # Null
  ELSE Len(identifier) = 10

\* AmazonSource.validateIdentifier; /^[A-Z0-9]{10}$/ for an id.
ValidateIdentifier(identifier, isUrl) ==
  IF isUrl THEN ExtractProductId(identifier) # Null
  ELSE /\ Len(identifier) = 10
       /\ \A k \in 1..10 : identifier[k] \in UpperAlnum

\* sourceRegistry: only AmazonSource is registered.
RegisteredSources == {"amazon"}

----------------------------------------------------------------------------
(* The order gateway: createOrder, updateOrderWithShippingAddress, getOrderStatus *)

\* s.startsWith(prefix)
StartsWith(str, prefix) ==
  /\ Len(str) >= Len(prefix)
  /\ SubSeq(str, 1, Len(prefix)) = prefix

ProductionPrefix ==
  <<"s", "k", "_", "p", "r", "o", "d", "u", "c", "t", "i", "o", "n", "_">>
MockOrderPrefix ==
  <<"m", "o", "c", "k", "-", "o", "r", "d", "e", "r", "-">>

\* API keys: a production key, a staging key, one that stops short of the
\* prefix, one in upper case, and no key at all.
ProductionKey ==
  <<"s", "k", "_", "p", "r", "o", "d", "u", "c", "t", "i", "o", "n", "_",
    "9", "f">>
StagingKey ==
  <<"s", "k", "_", "s", "t", "a", "g", "i", "n", "g", "_", "9", "f">>
ShortKey ==
  <<"s", "k", "_", "p", "r", "o", "d", "u", "c", "t", "i", "o", "n">>
UpperKey ==
  <<"S", "K", "_", "P", "R", "O", "D", "U", "C", "T", "I", "O", "N", "_",
    "9", "F">>

ApiKeys == {ProductionKey, StagingKey, ShortKey, UpperKey, <<>>}

\* options.chain: not given, or a chain name.
Chains == {"", "base", "polygon-amoy"}

RemoteOrderId ==
  <<"o", "r", "d", "-", "1">>
MockOrderId ==
  <<"m", "o", "c", "k", "-", "o", "r", "d", "e", "r", "-", "1">>

OrderIds == {RemoteOrderId, MockOrderId}

ProductionUrl == "https://www.crossmint.com/api/2022-06-09"
StagingUrl == "https://staging.crossmint.com/api/2022-06-09"

\* Variant of GetApiBaseUrl that lets a main-net chain select production.
GetApiBaseUrlByChain(apiKey, chain) ==
  IF (apiKey # <<>> /\ StartsWith(apiKey, ProductionPrefix)) \/ chain \in {"base", "polygon"}
    THEN ProductionUrl
    ELSE StagingUrl

\* getApiBaseUrl(apiKey); the chain is not among its parameters.
GetApiBaseUrl(apiKey, chain) ==
  IF apiKey # <<>> /\ StartsWith(apiKey, ProductionPrefix)
    THEN ProductionUrl
    ELSE StagingUrl

\* getPaymentMethod(apiKey, chain)
GetPaymentMethod(apiKey, chain) ==
  IF chain # "" THEN chain
  ELSE IF apiKey # <<>> /\ StartsWith(apiKey, ProductionPrefix) THEN "polygon"
  ELSE "polygon-amoy"

\* Identifiers handed to createOrder.
GatewayIdentifiers == UrlsOfLength(1) \cup BareIdentifiers

NoArgs ==
  [op |-> "", source |-> "", productIdentifier |-> <<>>, isUrl |-> FALSE,
   apiKey |-> <<>>, chain |-> "", orderId |-> <<>>]

CreateOrderArgs ==
  {[NoArgs EXCEPT !.op = "createOrder", !.source = src, !.productIdentifier = id,
                  !.isUrl = u, !.apiKey = key, !.chain = ch] :
     src \in {"amazon", "shopify"}, id \in GatewayIdentifiers, u \in BOOLEAN,
     key \in ApiKeys, ch \in Chains}

UpdateOrderArgs ==
  {[NoArgs EXCEPT !.op = "updateOrderWithShippingAddress", !.apiKey = key, !.orderId = id] :
     key \in ApiKeys, id \in OrderIds}

GetOrderStatusArgs ==
  {[NoArgs EXCEPT !.op = "getOrderStatus", !.apiKey = key, !.orderId = id] :
     key \in ApiKeys, id \in OrderIds}

\* Response bodies of POST /orders and PATCH /orders/:id.
OrderData ==
  {[order |-> [orderId |-> RemoteOrderId, quote |-> [status |-> q]]] :
     q \in CreateQuoteStatuses}

\* Response bodies of GET /orders/:id: flattened (complete, with an extra
\* field, with an empty phase, with only the orderId), nested under `order`
\* (bare and with an extra field), and one that is neither.
FlatQuote == [status |-> "valid"]
FlatPayment == [status |-> "awaiting-payment", method |-> "polygon-amoy", currency |-> "usdc"]
FlatData ==
  [orderId |-> RemoteOrderId, phase |-> "payment", quote |-> FlatQuote, payment |-> FlatPayment]
FlatDataWithLocale ==
  [orderId |-> RemoteOrderId, phase |-> "payment", quote |-> FlatQuote, payment |-> FlatPayment,
   locale |-> "en-US"]
FlatDataEmptyPhase ==
  [orderId |-> RemoteOrderId, phase |-> "", quote |-> FlatQuote, payment |-> FlatPayment]
FlatDataIdOnly == [orderId |-> RemoteOrderId]
NestedData ==
  [order |-> [orderId |-> RemoteOrderId, phase |-> "payment", quote |-> FlatQuote,
              payment |-> FlatPayment]]
NestedDataWithLocale ==
  [order |-> [orderId |-> RemoteOrderId, phase |-> "payment", quote |-> FlatQuote,
              payment |-> FlatPayment],
   locale |-> "en-US"]
OtherData == [message |-> "ok"]

StatusData ==
  {FlatData, FlatDataWithLocale, FlatDataEmptyPhase, FlatDataIdOnly,
   NestedData, NestedDataWithLocale, OtherData}

\* What axios comes back with: a response, a non-2xx response (an AxiosError
\* with a response), or an error without a response.
HttpErrors ==
  {[kind |-> "http", status |-> st, data |-> body] :
     st \in {400, 500}, body \in {[message |-> "Invalid request"], [error |-> "internal"]}}
TransportErrors ==
  {[kind |-> "transport", name |-> "AxiosError", message |-> "Network Error"],
   [kind |-> "transport", name |-> "AxiosError", message |-> "timeout exceeded"]}
OrderOutcomes ==
  {[kind |-> "ok", data |-> d] : d \in OrderData} \cup HttpErrors \cup TransportErrors
StatusOutcomes ==
  {[kind |-> "ok", data |-> d] : d \in StatusData} \cup HttpErrors \cup TransportErrors

\* a value of `data`, or undefined
Has(data, key) == key \in DOMAIN data

\* { ...a, ...b }
Spread(a, b) ==
  [key \in DOMAIN a \cup DOMAIN b |-> IF key \in DOMAIN b THEN b[key] ELSE a[key]]

\* The order getOrderStatus builds from a flattened response.
TransformedOrder(data) ==
  [orderId |-> data.orderId,
   phase |-> IF Has(data, "phase") /\ data.phase # "" THEN data.phase ELSE "unknown",
   quote |-> IF Has(data, "quote") THEN data.quote ELSE [status |-> "unknown"],
   payment |-> IF Has(data, "payment") THEN data.payment
               ELSE [status |-> "unknown", method |-> "unknown", currency |-> "unknown"]]

\* Variant of Normalize that returns the built order alone.
NormalizeOrderOnly(data) ==
  IF ~Has(data, "order") /\ Has(data, "orderId") /\ data.orderId # <<>>
    THEN [order |-> TransformedOrder(data)]
    ELSE data

\* if (!data.order && data.orderId) return { order: {...}, ...data }; return data
Normalize(data) ==
  IF ~Has(data, "order") /\ Has(data, "orderId") /\ data.orderId # <<>>
    THEN Spread([order |-> TransformedOrder(data)], data)
    ELSE data

\* JSON.stringify(value): the JSON text of the value.
JsonStringify(value) == [json |-> value]

\* String(error)
StringOf(error) == <<error.name, ": ", error.message>>

ErrorText(op) ==
  IF op = "createOrder" THEN "Failed to create order"
  ELSE IF op = "updateOrderWithShippingAddress" THEN "Failed to update order"
  ELSE "Failed to get order status"

\* Variant of Settle whose catch block treats every error alike.
SettleWithoutStatus(op, out) ==
  IF out.kind = "http"
    THEN [kind |-> "throw", text |-> ErrorText(op), cause |-> <<"AxiosError", ": ", "failed">>]
  ELSE IF out.kind = "transport"
    THEN [kind |-> "throw", text |-> ErrorText(op), cause |-> StringOf(out)]
  ELSE [kind |-> "return",
        data |-> IF op = "getOrderStatus" THEN Normalize(out.data) ELSE out.data]

\* What a gateway function does with the outcome of its request: return the
\* data, or throw from its catch block.
Settle(op, out) ==
  IF out.kind = "http"
    THEN [kind |-> "throw", text |-> ErrorText(op), status |-> out.status,
          body |-> JsonStringify(out.data)]
  ELSE IF out.kind = "transport"
    THEN [kind |-> "throw", text |-> ErrorText(op), cause |-> StringOf(out)]
  ELSE [kind |-> "return",
        data |-> IF op = "getOrderStatus" THEN Normalize(out.data) ELSE out.data]

\* Variant of CreateOrderValidation that checks the source only.
CreateOrderValidationSourceOnly(args) ==
  IF args.source \notin RegisteredSources
    THEN [kind |-> "throw", text |-> "Unsupported product source", source |-> args.source]
  ELSE None

\* The checks createOrder makes before it builds the request.
CreateOrderValidation(args) ==
  IF args.source \notin RegisteredSources
    THEN [kind |-> "throw", text |-> "Unsupported product source", source |-> args.source]
  ELSE IF ~ValidateIdentifier(args.productIdentifier, args.isUrl)
    THEN [kind |-> "throw", text |-> "Invalid product identifier for source",
          source |-> args.source, productIdentifier |-> args.productIdentifier]
  ELSE None

\* What a gateway function settles with before any request: a validation
\* error, or the mock response of test mode; None if it goes on to the request.
EarlyResult(args, test, address) ==
  IF args.op = "createOrder"
    THEN IF CreateOrderValidation(args) # None THEN CreateOrderValidation(args)
         ELSE IF test
           THEN [kind |-> "return",
                 data |-> [order |-> [orderId |-> MockOrderId,
                                      quote |-> [status |-> IF address THEN "valid"
                                                            ELSE "requires-physical-address"]]]]
         ELSE None
  ELSE IF args.op = "getOrderStatus"
    THEN IF test \/ StartsWith(args.orderId, MockOrderPrefix)
           THEN [kind |-> "return",
                 data |-> [order |-> [orderId |-> args.orderId, phase |-> "payment",
                                      quote |-> [status |-> "valid"]]]]
         ELSE None
  ELSE None

\* The request a gateway function hands to axios.
RequestOf(args) ==
  IF args.op = "createOrder"
    THEN [verb |-> "POST", base |-> GetApiBaseUrl(args.apiKey, args.chain), path |-> <<"orders">>,
          productLocator |-> CreateProductLocator(args.productIdentifier, args.isUrl),
          method |-> GetPaymentMethod(args.apiKey, args.chain)]
  ELSE IF args.op = "updateOrderWithShippingAddress"
    THEN [verb |-> "PATCH", base |-> GetApiBaseUrl(args.apiKey, args.chain),
          path |-> <<"orders", args.orderId>>]
  ELSE [verb |-> "GET", base |-> GetApiBaseUrl(args.apiKey, args.chain),
        path |-> <<"orders", args.orderId>>]

GatewayIdle ==
  /\ gwArgs = NoArgs
  /\ nodeEnvTest = FALSE
  /\ gwRequests = 0
  /\ gwRequest = None
  /\ gwOutcome = None
  /\ gwResult = None

\* A gateway function from its call to its first await: it settles early, or
\* issues its request.
GatewayBegin ==
  /\ pc = "gw_begin"
  /\ IF EarlyResult(gwArgs, nodeEnvTest, hasAddress) # None
       THEN /\ gwResult' = EarlyResult(gwArgs, nodeEnvTest, hasAddress)
            /\ pc' = "gw_done"
            /\ UNCHANGED <<gwRequests, gwRequest>>
       ELSE /\ gwRequests' = gwRequests + 1
            /\ gwRequest' = RequestOf(gwArgs)
            /\ pc' = "gw_wait"
            /\ UNCHANGED gwResult
  /\ UNCHANGED <<mode, hasKey, hasAddress, createCalls, patchCalls, createStatus,
                 gwArgs, nodeEnvTest, gwOutcome,
                 status, paymentLog, pollVars, signVars, monVars, getStatusCalls, changeLog>>

\* Variant of GatewayResponse that issues the request once more after an error.
GatewayResponseRetries ==
  /\ pc = "gw_wait"
  /\ \E out \in (IF gwArgs.op = "getOrderStatus" THEN StatusOutcomes ELSE OrderOutcomes) :
       /\ gwOutcome' = out
       /\ IF out.kind # "ok" /\ gwRequests < 2
            THEN /\ gwRequests' = gwRequests + 1
                 /\ pc' = "gw_wait"
                 /\ UNCHANGED gwResult
            ELSE /\ gwResult' = Settle(gwArgs.op, out)
                 /\ pc' = "gw_done"
                 /\ UNCHANGED gwRequests
  /\ UNCHANGED <<mode, hasKey, hasAddress, createCalls, patchCalls, createStatus,
                 gwArgs, nodeEnvTest, gwRequest,
                 status, paymentLog, pollVars, signVars, monVars, getStatusCalls, changeLog>>

\* The awaited request settles: the function returns the data, or its catch
\* block throws.
GatewayResponse ==
  /\ pc = "gw_wait"
  /\ \E out \in (IF gwArgs.op = "getOrderStatus" THEN StatusOutcomes ELSE OrderOutcomes) :
       /\ gwOutcome' = out
       /\ gwResult' = Settle(gwArgs.op, out)
  /\ pc' = "gw_done"
  /\ UNCHANGED <<mode, hasKey, hasAddress, createCalls, patchCalls, createStatus,
                 gwArgs, nodeEnvTest, gwRequests, gwRequest,
                 status, paymentLog, pollVars, signVars, monVars, getStatusCalls, changeLog>>

\* extractProductId, validateIdentifier and createProductLocator of
\* AmazonSource applied to the identifier.
SourceCall ==
  /\ pc = "src_call"
  /\ gwResult' =
       [kind |-> "source",
        productId |-> ExtractProductId(gwArgs.productIdentifier),
        valid |-> ValidateIdentifier(gwArgs.productIdentifier, gwArgs.isUrl),
        locator |-> CreateProductLocator(gwArgs.productIdentifier, gwArgs.isUrl)]
  /\ pc' = "src_done"
  /\ UNCHANGED <<mode, hasKey, hasAddress, createCalls, patchCalls, createStatus,
                 gwArgs, nodeEnvTest, gwRequests, gwRequest, gwOutcome,
                 status, paymentLog, pollVars, signVars, monVars, getStatusCalls, changeLog>>

----------------------------------------------------------------------------
(* Specification *)

InitBuy ==
  /\ mode = "buy"
  /\ pc = "create"
  /\ hasKey \in BOOLEAN
  /\ hasAddress \in BOOLEAN
  /\ PollerStart(DEFAULT_POLLING_MAX_ATTEMPTS)
  /\ order = None

InitPoller ==
  /\ mode = "poller"
  /\ pc = "poll_loop"
  /\ hasKey = FALSE
  /\ hasAddress = FALSE
  /\ \E max \in (0 - NegativeAttemptsArg)..MaxAttemptsArg : PollerStart(max)
  /\ order = None

InitSigner ==
  /\ mode = "signer"
  /\ pc = "pay_begin"
  /\ hasKey = TRUE
  /\ hasAddress = FALSE
  /\ PollerStart(DEFAULT_POLLING_MAX_ATTEMPTS)
  /\ order \in Orders

\* Nothing has run yet.
Idle ==
  /\ status = ""
  /\ paymentLog = ""
  /\ createCalls = 0
  /\ patchCalls = 0
  /\ createStatus = ""
  /\ getStatusCalls = 0
  /\ changeLog = {}
  /\ SignerIdle
  /\ MonitorStart

Init ==
  /\ Idle
  /\ GatewayIdle
  /\ (InitBuy \/ InitPoller \/ InitSigner)

Next ==
  \/ CreateOrder
  \/ PatchOrder
  \/ PollGetStatus
  \/ PollSleep
  \/ PollTimeout
  \/ PaymentStageAfterPoller
  \/ ProcessPaymentBegin
  \/ SendTransaction
  \/ WaitConfirmation
  \/ PaymentStageAfterSigner
  \/ MonitorGetStatus
  \/ MonitorSleep
  \/ MonitorFinal
  \/ MonitorExhausted

Spec == Init /\ [][Next]_vars

\* Every awaited call or timer eventually settles: a remote call returns or
\* fails, and the continuation of the await then runs.
LiveSpec == Spec /\ WF_vars(Next)

InitGateway ==
  /\ mode = "gateway"
  /\ pc = "gw_begin"
  /\ hasAddress \in BOOLEAN
  /\ nodeEnvTest \in BOOLEAN
  /\ gwArgs \in CreateOrderArgs \cup UpdateOrderArgs \cup GetOrderStatusArgs

InitSource ==
  /\ mode = "source"
  /\ pc = "src_call"
  /\ hasAddress = FALSE
  /\ nodeEnvTest = FALSE
  /\ \E id \in Identifiers, u \in BOOLEAN :
       gwArgs = [NoArgs EXCEPT !.op = "source", !.source = "amazon",
                               !.productIdentifier = id, !.isUrl = u]

GatewayInit ==
  /\ Idle
  /\ hasKey = FALSE
  /\ PollerStart(DEFAULT_POLLING_MAX_ATTEMPTS)
  /\ order = None
  /\ gwRequests = 0
  /\ gwRequest = None
  /\ gwOutcome = None
  /\ gwResult = None
  /\ (InitGateway \/ InitSource)

GatewayNext ==
  \/ GatewayBegin
  \/ GatewayResponse
  \/ SourceCall

GatewaySpec == GatewayInit /\ [][GatewayNext]_vars

----------------------------------------------------------------------------
(* Properties *)

PollerActive == pc \in {"poll_loop", "poll_sleep", "poll_done"}
SignerActive == pc \in {"pay_begin", "pay_send", "pay_wait", "pay_done"}
MonitorActive == pc \in {"mon_loop", "mon_sleep", "mon_final"}

InsufficientFunds == [kind |-> "error", error |-> "InsufficientFunds"]
AddressRequired == [kind |-> "error", error |-> "AddressRequired"]
PayloadMissing(o) == [kind |-> "error", error |-> "PaymentPayloadMissing", order |-> o]

\* C1: in a run of the buy flow processPayment is invoked at most once and at
\* most one transaction is sent, whatever the service and the chain answer; a
\* snapshot that still shows a serializedTransaction during monitoring causes no
\* further submission.
C1_AtMostOneSubmission ==
  mode = "buy" =>
    /\ signerCalls <= 1
    /\ sendCalls <= 1
    /\ (MonitorActive \/ pc = "done") => order = None

\* C1 witness: the run has sent its transaction and the monitor then saw a
\* snapshot that still carries a serializedTransaction.
C1_Witness ==
  mode = "buy" /\ pc = "done" /\ sendCalls = 1 /\ monSawReady

\* C2 (as claimed): whenever the poller's latest observation has payment status
\* failed or canceled and no serializedTransaction, the poller has stopped at
\* that attempt with the terminal-failure error carrying the observed status.
C2_TerminalStatusStopsPoller ==
  lastObs = "terminal" =>
    /\ pc = "poll_done"
    /\ pollError = TerminalError(OrderOf(statusResponse))
    /\ getStatusCalls = attempts

\* C3: when the k-th getOrderStatus response carries a non-empty
\* serializedTransaction, the poller has returned exactly that response after k
\* calls and k-1 delays, with no error.
C3_ReadyResponseReturned ==
  lastObs = "ready" =>
    /\ pc = "poll_done"
    /\ pollResult = statusResponse
    /\ pollResult.kind = "response"
    /\ pollError = None
    /\ getStatusCalls = attempts
    /\ sleeps = attempts - 1

\* C3 witness: two pending responses, then a ready one on the third call.
C3_Witness ==
  /\ mode = "poller"
  /\ lastObs = "ready"
  /\ priorPending
  /\ attempts = 3
  /\ pc = "poll_done"

\* C4: when every observation of the poller was a pending status and the poller
\* has finished, it failed with the timeout error after exactly maxAttempts
\* calls (none for a budget below zero); while it runs it never exceeds
\* maxAttempts calls.
C4_TimeoutAfterMaxAttempts ==
  /\ (pc = "poll_done" /\ priorPending /\ lastObs \in {"none", "pending"}) =>
       /\ pollError = TimeoutError(maxAttempts)
       /\ pollResult = None
       /\ getStatusCalls = (IF maxAttempts > 0 THEN maxAttempts ELSE 0)
  /\ (PollerActive /\ priorPending /\ lastObs \in {"none", "pending"} /\ getStatusCalls > 0) =>
       getStatusCalls <= maxAttempts

\* C4 witness: three pending responses with maxAttempts = 3, then the timeout.
C4_Witness ==
  /\ mode = "poller"
  /\ pc = "poll_done"
  /\ priorPending
  /\ lastObs = "pending"
  /\ maxAttempts = 3
  /\ getStatusCalls = 3
  /\ pollError = TimeoutError(3)

\* C5: a getOrderStatus error before the last attempt is absorbed (the poller
\* sleeps once and goes on, the attempt counted); an error on the last attempt
\* escapes as it is; and whatever escapes the poller is the timeout error or an
\* error raised on the last attempt.
C5_OnlyFinalErrorEscapes ==
  /\ (lastObs = "error" /\ attempts < maxAttempts) =>
       /\ pc \in {"poll_sleep", "poll_loop"}
       /\ pollError = None
       /\ getStatusCalls = attempts
       /\ sleeps = IF pc = "poll_loop" THEN attempts ELSE attempts - 1
  /\ (lastObs = "error" /\ attempts >= maxAttempts) =>
       /\ pc = "poll_done"
       /\ pollError = statusResponse
  /\ (pc = "poll_done" /\ pollError # None) =>
       \/ pollError = TimeoutError(maxAttempts)
       \/ attempts = maxAttempts /\ lastObs \in {"error", "terminal"}

\* C5 witness: an error on the first of three attempts, absorbed and slept on.
C5_Witness ==
  /\ mode = "poller"
  /\ lastObs = "error"
  /\ attempts = 1
  /\ maxAttempts = 3
  /\ pc = "poll_loop"
  /\ sleeps = 1

\* The order fails a precondition of the signer (read from its fields).
FailsPrecondition(o) ==
  \/ o.payment.status = "crypto-payer-insufficient-funds"
  \/ o.quote.status = "requires-physical-address"
  \/ o.payment.preparation \notin {ReadyPreparation, MalformedPreparation}

\* C6: when the order given to processPayment fails a precondition, no provider
\* is opened, nothing is sent and nothing is awaited; the call ends in an error.
C6_NoChainCallOnFailedPrecondition ==
  (order # None /\ FailsPrecondition(order)) =>
    /\ providerOpens = 0
    /\ sendCalls = 0
    /\ waitCalls = 0
    /\ rpcUrl = ""
    /\ pc \in {"pay_begin", "pay_done"}
    /\ pc = "pay_done" => (signError # None /\ receipt = None)

\* C6 witness: an insufficient-funds order that carries a serialized transaction
\* has been rejected.
C6_Witness ==
  /\ pc = "pay_done"
  /\ signerCalls = 1
  /\ order # None
  /\ order.payment.status = "crypto-payer-insufficient-funds"
  /\ order.payment.preparation = ReadyPreparation
  /\ signError = InsufficientFunds

\* C7: processPayment reports the first failing precondition in the order
\* insufficient funds, address required, payload missing; the payload-missing
\* error carries the whole order.
C7_PreconditionOrder ==
  (pc = "pay_done" /\ order # None) =>
    /\ order.payment.status = "crypto-payer-insufficient-funds" =>
         signError = InsufficientFunds
    /\ (order.payment.status # "crypto-payer-insufficient-funds"
          /\ order.quote.status = "requires-physical-address") =>
         signError = AddressRequired
    /\ (order.payment.status # "crypto-payer-insufficient-funds"
          /\ order.quote.status # "requires-physical-address"
          /\ order.payment.preparation \notin {ReadyPreparation, MalformedPreparation}) =>
         signError = PayloadMissing(order)
    /\ (signError.kind = "error" /\ signError.error = "PaymentPayloadMissing") =>
         /\ order.payment.status # "crypto-payer-insufficient-funds"
         /\ order.quote.status # "requires-physical-address"
         /\ signError.order = order

\* C7 witness: an order that is insufficient-funds and requires an address and
\* has no payload fails with InsufficientFunds.
C7_Witness ==
  /\ pc = "pay_done"
  /\ order # None
  /\ order.payment.status = "crypto-payer-insufficient-funds"
  /\ order.quote.status = "requires-physical-address"
  /\ order.payment.preparation = NoPreparation
  /\ signError = InsufficientFunds

\* C8: in one processPayment call the transaction is sent at most once,
\* confirmation is awaited at most once and only after a successful send, a
\* receipt exists only after a successful confirmation, and a failed send or
\* confirmation ends the call with the chain's error.
C8_NoRetryInSigner ==
  /\ sendCalls <= 1
  /\ waitCalls <= sendCalls
  /\ (SignerActive /\ waitCalls >= 1) => tx \in Transactions
  /\ pc = "pay_wait" => (tx \in Transactions /\ sendCalls = 1 /\ waitCalls = 0)
  /\ receipt # None =>
       (receipt \in Receipts /\ waitCalls = 1 /\ tx \in Transactions /\ signError = None)
  /\ (pc = "pay_done" /\ sendCalls = 1 /\ tx = None) =>
       (signError \in ChainErrors /\ waitCalls = 0 /\ receipt = None)
  /\ (pc = "pay_done" /\ waitCalls = 1 /\ receipt = None) => signError \in ChainErrors

\* C8 witness: a send that failed; the call ended with the chain error, nothing
\* was awaited.
C8_Witness ==
  /\ pc = "pay_done"
  /\ sendCalls = 1
  /\ waitCalls = 0
  /\ signError \in ChainErrors

\* C9: the endpoint is a total function of payment.method: the four known
\* methods map to their endpoints, every other method maps to the Amoy testnet
\* endpoint, and only base and polygon reach a mainnet endpoint.
C9_ChainResolution ==
  /\ pc \in {"pay_send", "pay_wait"} => rpcUrl # ""
  /\ (SignerActive /\ signerCalls = 1 /\ order # None /\ ~FailsPrecondition(order)) =>
       (rpcUrl # "" /\ providerOpens = 1)
  /\ rpcUrl # "" =>
       /\ order # None
       /\ order.payment.method = "base" => rpcUrl = "https://mainnet.base.org"
       /\ order.payment.method = "base-sepolia" => rpcUrl = "https://sepolia.base.org"
       /\ order.payment.method = "polygon" => rpcUrl = "https://polygon-rpc.com/"
       /\ order.payment.method = "polygon-amoy" =>
            rpcUrl = "https://rpc-amoy.polygon.technology/"
       /\ order.payment.method \notin {"base", "base-sepolia", "polygon", "polygon-amoy"} =>
            rpcUrl = "https://rpc-amoy.polygon.technology/"
       /\ rpcUrl \in {"https://mainnet.base.org", "https://polygon-rpc.com/"} =>
            order.payment.method \in {"base", "polygon"}

\* C9 witness: an unknown method resolved to the Amoy endpoint and the
\* transaction is about to be sent.
C9_Witness ==
  /\ pc = "pay_send"
  /\ order.payment.method = "xyz"
  /\ rpcUrl = "https://rpc-amoy.polygon.technology/"

\* The poller of this buy run failed: its error is pending, or the payment stage
\* logged an error without processPayment having been called.
PollerFailedInBuy ==
  /\ mode = "buy"
  /\ \/ pc = "poll_done" /\ pollError # None
     \/ paymentLog = "Error processing payment" /\ signerCalls = 0

\* C10 (as claimed): once the poller has failed in a buy run, the signer is not
\* invoked, the monitor makes no getOrderStatus call and the run makes no
\* further getOrderStatus call.
C10_PollerFailureEndsFlow ==
  PollerFailedInBuy => (signerCalls = 0 /\ monAttempts = 0 /\ pc # "mon_final")

\* The signer of this buy run failed: its error is pending, or the payment stage
\* logged an error after processPayment had been called.
SignerFailedInBuy ==
  /\ mode = "buy"
  /\ \/ pc = "pay_done" /\ signError # None
     \/ paymentLog = "Error processing payment" /\ signerCalls = 1

\* C11 (as claimed): once the signer has failed in a buy run, the run does not
\* enter monitoring: the monitor makes no getOrderStatus call, neither a poll
\* nor the one for the final details.
C11_SignerFailureEndsFlow ==
  SignerFailedInBuy => (monAttempts = 0 /\ finalCalls = 0 /\ pc # "mon_final")

\* C12 (as claimed): a buy run whose quote is valid and that has no private key
\* ends right there: no poller call, no signer call, no chain call, and no
\* monitor call either.
C12_NoKeyEndsAtValid ==
  (mode = "buy" /\ ~hasKey /\ status = "valid" /\ pc \notin {"create", "patch"}) =>
    /\ pc = "done"
    /\ paymentLog = "No private key provided"
    /\ getStatusCalls = 0
    /\ signerCalls = 0
    /\ providerOpens = 0
    /\ sendCalls = 0
    /\ monAttempts = 0

\* The address update was called and came back with a quote status.
PatchReturned == mode = "buy" /\ patchCalls = 1 /\ pc # "exit1"

C14_PatchExactlyWhenNeeded ==
  mode = "buy" =>
    /\ patchCalls <= 1
    /\ pc = "patch" =>
         patchCalls = 0 /\ createStatus = "requires-physical-address" /\ hasAddress
    /\ patchCalls = 1 => (createStatus = "requires-physical-address" /\ hasAddress)
    /\ (createStatus = "requires-physical-address" /\ hasAddress /\ pc # "patch") =>
         patchCalls = 1
    /\ (createStatus = "requires-physical-address" /\ ~hasAddress) =>
         (patchCalls = 0 /\ pc = "done")

\* C14 witness: createOrder asked for an address, the update was called once and
\* the run went on to monitor the order.
C14_Witness ==
  /\ mode = "buy"
  /\ createStatus = "requires-physical-address"
  /\ patchCalls = 1
  /\ MonitorActive

\* The monitor's latest observation satisfies its terminal test.
TerminalObserved ==
  /\ monLastObs.kind = "order"
  /\ (monLastObs.paymentStatus = "completed" \/ monLastObs.phase = "complete")

PendingObserved ==
  /\ monLastObs.kind = "order"
  /\ ~(monLastObs.paymentStatus = "completed" \/ monLastObs.phase = "complete")

\* C15 (as claimed): a run whose monitor used up its attempts without a
\* terminal observation ends with an explicit outcome.
C15_ExhaustionHasOutcome ==
  (mode = "buy" /\ pc = "done" /\ monAttempts = MonitorMaxAttempts /\ PendingObserved) =>
    monitorLog # ""

\* C16: the monitor stops polling at the first observation with payment status
\* 'completed' or phase 'complete', and after an observation with neither it
\* does not stop as confirmed: it goes on polling, or has used up its attempts.
C16_MonitorStopRule ==
  mode = "buy" =>
    /\ TerminalObserved => pc \in {"mon_final", "done"}
    /\ PendingObserved =>
         /\ finalCalls = 0
         /\ reports = 0
         /\ \/ pc \in {"mon_sleep", "mon_loop"}
            \/ pc = "done" /\ monAttempts = MonitorMaxAttempts

\* C16 witness: the third observation has phase 'complete' without a completed
\* payment, and the monitor has stopped polling.
C16_Witness ==
  /\ pc = "mon_final"
  /\ monAttempts = 3
  /\ monLastObs.kind = "order"
  /\ monLastObs.phase = "complete"
  /\ monLastObs.paymentStatus # "completed"

\* C17 (as claimed): an observation with phase 'completed' stops the monitor as
\* confirmed, whatever its payment status.
C17_CompletedPhaseConfirms ==
  (mode = "buy" /\ monLastObs.kind = "order" /\ monLastObs.phase = "completed") =>
    (pc = "mon_final" \/ (pc = "done" /\ finalCalls = 1))

\* C18: once the stop test has fired, exactly one more getOrderStatus call is
\* made and polling ends; an error of that call, or a final snapshot without
\* the optional fields, leaves the run ending normally.
C18_OneFinalCall ==
  mode = "buy" =>
    /\ finalCalls <= 1
    /\ pc = "mon_final" => (finalCalls = 0 /\ TerminalObserved)
    /\ finalCalls = 1 => (pc = "done" /\ TerminalObserved)
    /\ (pc = "done" /\ TerminalObserved) =>
         /\ finalCalls = 1
         /\ monitorLog \in {"Order Details", "Error retrieving final order details"}
    /\ monitorLog = "Error retrieving final order details" => reports = 0
    /\ monitorLog = "Order Details" =>
         /\ reports = 1
         /\ orderDetails.kind = "report"
         /\ orderDetails.totalPrice # ""
         /\ orderDetails.currency # ""
         /\ orderDetails.recipientName # ""
         /\ orderDetails.formattedAddress # ""

\* C18 witness: the extra call failed and the run has ended normally.
C18_Witness ==
  /\ mode = "buy"
  /\ pc = "done"
  /\ finalCalls = 1
  /\ monitorLog = "Error retrieving final order details"

\* C19 (as claimed): whenever the run has told the user that the payment or the
\* purchase succeeded, the monitor has observed a terminal snapshot before.
C19_SuccessOnlyAfterConfirmed ==
  mode = "buy" =>
    /\ paymentLog = "Payment processed successfully!" => TerminalObserved
    /\ reports > 0 => TerminalObserved

\* C20 (as claimed): a getOrderStatus error on a monitor attempt before the
\* last does not end monitoring: polling continues.
C20_MonitorAbsorbsErrors ==
  (mode = "buy" /\ monLastObs.kind = "error" /\ monAttempts < MonitorMaxAttempts) =>
    pc \in {"mon_sleep", "mon_loop"}

\* The end-to-end scenario has run: createOrder asked for an address, one
\* update made the quote valid, the poller returned on its 3rd call, the signer
\* sent one transaction and got its receipt, the monitor saw phase 'complete'
\* on its 2nd attempt and the run ended with the order details.
ScenarioEnd ==
  /\ mode = "buy"
  /\ pc = "done"
  /\ createStatus = "requires-physical-address"
  /\ patchCalls = 1
  /\ status = "valid"
  /\ getStatusCalls - monAttempts - finalCalls = 3
  /\ signerCalls = 1
  /\ sendCalls = 1
  /\ waitCalls = 1
  /\ paymentLog = "Payment processed successfully!"
  /\ monAttempts = 2
  /\ monLastObs.kind = "order"
  /\ monLastObs.phase = "complete"
  /\ finalCalls = 1
  /\ monitorLog = "Order Details"

\* C28 (as claimed): at the end of the end-to-end scenario the receipt of the
\* transaction, with its hash, is available in the outcome of the run.
C28_ScenarioEndsWithReceipt ==
  ScenarioEnd => (receipt # None \/ "transactionHash" \in DOMAIN orderDetails)

\* C29: a polling loop prints a change line for an observation only if the
\* phase, or the payment status, differs from that of the previous observation
\* it got a response for, and prints nothing for an observation equal to it in
\* both, also when failed attempts lie between the two.
C29_LogOnlyOnChange ==
  [][/\ (attempts' = attempts + 1 /\ statusResponse'.kind = "response"
         /\ pollPrev.kind = "order") =>
          /\ "Order phase" \in changeLog' => pollPrev'.phase # pollPrev.phase
          /\ "Payment status" \in changeLog' =>
               pollPrev'.paymentStatus # pollPrev.paymentStatus
          /\ pollPrev' = pollPrev => changeLog' = {}
     /\ (monAttempts' = monAttempts + 1 /\ monLastObs'.kind = "order"
         /\ monLastObs.kind = "order") =>
          /\ "Order phase" \in changeLog' => monLastObs'.phase # monLastObs.phase
          /\ "Payment status" \in changeLog' =>
               monLastObs'.paymentStatus # monLastObs.paymentStatus
          /\ monLastObs' = monLastObs => changeLog' = {}
    ]_vars

\* C29 witness: after an attempt that failed, the poller got a pending
\* observation and printed nothing for it.
C29_Witness ==
  /\ mode = "poller"
  /\ pc = "poll_sleep"
  /\ attempts = 3
  /\ lastObs = "pending"
  /\ ~priorPending
  /\ statusResponse.kind = "response"
  /\ changeLog = {}

\* A gateway call of `op` has settled after its request came back.
Settled(op) ==
  mode = "gateway" /\ pc = "gw_done" /\ gwArgs.op = op /\ gwOutcome # None

\* A flattened response: no `order` key, and orderId, phase, quote and payment
\* at top level.
Flattened(data) ==
  /\ ~("order" \in DOMAIN data)
  /\ {"orderId", "phase", "quote", "payment"} \subseteq DOMAIN data
  /\ data.orderId # <<>>
  /\ data.phase # ""

\* C21: getOrderStatus returns a flattened response with its four values under
\* `order` and with every top-level field, extra ones included, unchanged; a
\* response nested under `order` is returned as it is.
C21_StatusNormalized ==
  (Settled("getOrderStatus") /\ gwOutcome.kind = "ok") =>
    /\ gwResult.kind = "return"
    /\ Flattened(gwOutcome.data) =>
         /\ DOMAIN gwResult.data = DOMAIN gwOutcome.data \cup {"order"}
         /\ \A key \in DOMAIN gwOutcome.data : gwResult.data[key] = gwOutcome.data[key]
         /\ gwResult.data.order =
              [orderId |-> gwOutcome.data.orderId, phase |-> gwOutcome.data.phase,
               quote |-> gwOutcome.data.quote, payment |-> gwOutcome.data.payment]
    /\ "order" \in DOMAIN gwOutcome.data => gwResult.data = gwOutcome.data

\* C21 witness: a flattened response with an extra top-level field was returned.
C21_Witness ==
  /\ Settled("getOrderStatus")
  /\ gwOutcome.kind = "ok"
  /\ gwOutcome.data = FlatDataWithLocale
  /\ gwResult.kind = "return"

\* C22: a non-success response makes the gateway function throw an error with
\* the response status and the error body; an error without a response makes
\* it throw an error of another shape, without a status; neither returns data.
C22_GatewayErrorKinds ==
  (mode = "gateway" /\ pc = "gw_done" /\ gwOutcome # None) =>
    /\ gwOutcome.kind = "http" =>
         /\ gwResult.kind = "throw"
         /\ "status" \in DOMAIN gwResult
         /\ gwResult.status = gwOutcome.status
         /\ gwResult.body = [json |-> gwOutcome.data]
    /\ gwOutcome.kind = "transport" =>
         /\ gwResult.kind = "throw"
         /\ ~("status" \in DOMAIN gwResult)
         /\ ~("body" \in DOMAIN gwResult)
    /\ gwResult.kind = "return" => gwOutcome.kind = "ok"

\* C22 witness: updateOrderWithShippingAddress threw after a 500 response.
C22_Witness ==
  /\ Settled("updateOrderWithShippingAddress")
  /\ gwOutcome.kind = "http"
  /\ gwOutcome.status = 500
  /\ gwResult.kind = "throw"

\* C23: a gateway call issues at most one request, whether it succeeds or
\* fails, and exactly one once it has got past its early exits.
C23_NoGatewayRetry ==
  mode = "gateway" =>
    /\ gwRequests <= 1
    /\ pc = "gw_wait" => gwRequests = 1
    /\ (pc = "gw_done" /\ gwOutcome # None) => gwRequests = 1
    /\ (pc = "gw_done" /\ gwOutcome = None) => gwRequests = 0

\* C23 witness: getOrderStatus threw after one request that got no response.
C23_Witness ==
  /\ Settled("getOrderStatus")
  /\ gwOutcome.kind = "transport"
  /\ gwResult.kind = "throw"
  /\ gwRequests = 1

\* The identifiers that are 10 characters from [A-Z0-9].
WellFormedCodes == {Asin, OtherCode}

EndsWith(str, suffix) ==
  /\ Len(str) >= Len(suffix)
  /\ SubSeq(str, Len(str) - Len(suffix) + 1, Len(str)) = suffix

\* The identifier of a createOrder call passes for its source: a well-formed
\* code as an id, or a URL of one segment that is a well-formed code.
AcceptableForCreate(args) ==
  /\ args.source = "amazon"
  /\ IF args.isUrl
       THEN \E code \in WellFormedCodes, tail \in Tails :
              args.productIdentifier = Host \o <<"/">> \o code \o tail
       ELSE args.productIdentifier \in WellFormedCodes

\* C24: createOrder throws without a request when the source is not registered
\* or the identifier is invalid for it; it issues a request only for an
\* identifier that passes.
C24_ValidationBeforeRequest ==
  (mode = "gateway" /\ gwArgs.op = "createOrder" /\ pc # "gw_begin") =>
    /\ ~AcceptableForCreate(gwArgs) =>
         /\ pc = "gw_done"
         /\ gwResult.kind = "throw"
         /\ gwRequests = 0
         /\ gwRequest = None
    /\ gwRequests > 0 => AcceptableForCreate(gwArgs)

\* C24 witness: createOrder threw for a lower-case id, without a request.
C24_Witness ==
  /\ mode = "gateway"
  /\ gwArgs.op = "createOrder"
  /\ gwArgs.source = "amazon"
  /\ ~gwArgs.isUrl
  /\ gwArgs.productIdentifier = LowerCode
  /\ pc = "gw_done"
  /\ gwResult.kind = "throw"
  /\ gwRequests = 0

\* The functions of AmazonSource have been applied to the identifier.
SourceApplied == mode = "source" /\ pc = "src_done"

\* C25 (as claimed): for a URL whose final path segment is a well-formed code,
\* optionally followed by a query string, extractProductId returns that code,
\* whatever the earlier segments are.
C25_FinalSegmentExtracted ==
  (SourceApplied /\ gwArgs.productIdentifier \in Urls) =>
    \A code \in WellFormedCodes, tail \in Tails \ {<<"/">>} :
      EndsWith(gwArgs.productIdentifier, <<"/">> \o code \o tail) =>
        gwResult.productId = code

\* C26: createProductLocator gives 'amazon:' plus the code for a well-formed
\* code, with isUrl true and false alike, and 'amazon:' plus the extracted code,
\* not the URL, for a URL that extractProductId finds a code in.
C26_LocatorOfCode ==
  SourceApplied =>
    /\ gwArgs.productIdentifier \in WellFormedCodes =>
         gwResult.locator = AmazonPrefix \o gwArgs.productIdentifier
    /\ (gwArgs.isUrl /\ gwResult.productId # Null) =>
         /\ gwResult.locator = AmazonPrefix \o gwResult.productId
         /\ gwResult.locator # AmazonPrefix \o gwArgs.productIdentifier

\* C26 witness: a URL was resolved to the locator of its code.
C26_Witness ==
  /\ SourceApplied
  /\ gwArgs.isUrl
  /\ gwArgs.productIdentifier = Host \o <<"/">> \o Dp \o <<"/">> \o Asin
  /\ gwResult.locator = AmazonPrefix \o Asin

\* C27: validateIdentifier accepts a URL exactly when extractProductId finds a
\* code in it, and an id exactly when it is 10 characters from [A-Z0-9]; the
\* locator of an accepted identifier is 'amazon:' plus 10 such characters.
C27_ValidIdentifiers ==
  SourceApplied =>
    /\ gwArgs.isUrl => (gwResult.valid <=> gwResult.productId # Null)
    /\ ~gwArgs.isUrl => (gwResult.valid <=> gwArgs.productIdentifier \in WellFormedCodes)
    /\ gwResult.valid =>
         /\ Len(gwResult.locator) = Len(AmazonPrefix) + 10
         /\ SubSeq(gwResult.locator, 1, Len(AmazonPrefix)) = AmazonPrefix
         /\ \A k \in 1..10 : gwResult.locator[Len(AmazonPrefix) + k] \in UpperAlnum

\* C27 witness: a well-formed id was accepted.
C27_Witness ==
  /\ SourceApplied
  /\ ~gwArgs.isUrl
  /\ gwArgs.productIdentifier = OtherCode
  /\ gwResult.valid

PollerCalls == getStatusCalls - monAttempts - finalCalls

\* processPayment has been called and has not yet settled for the buy action.
PaymentInFlight == paymentLog = "Processing payment..."

C32_OneDelayBetweenCalls ==
  PollerActive =>
    /\ getStatusCalls = attempts
    /\ pc = "poll_loop" => sleeps = attempts
    /\ pc = "poll_sleep" =>
         /\ sleeps = attempts - 1
         /\ lastObs \in {"pending", "error", "terminal"}
         /\ lastObs \in {"error", "terminal"} => attempts < maxAttempts
    /\ pc = "poll_done" =>
         sleeps = (IF pollError = TimeoutError(maxAttempts) THEN attempts ELSE attempts - 1)

\* C32 witness: a pending status, then an error, each followed by one delay; the
\* third call is about to be made.
C32_Witness ==
  /\ mode = "poller"
  /\ pc = "poll_loop"
  /\ maxAttempts = 3
  /\ attempts = 2
  /\ sleeps = 2
  /\ priorPending
  /\ lastObs = "error"

\* C33: processPayment lets an order through to the chain on the presence of
\* its serializedTransaction alone: whatever the payment status (other than
\* 'crypto-payer-insufficient-funds') and the phase are, an order whose quote
\* does not require an address and that has a non-empty serializedTransaction
\* passes the preconditions, and the decoded transaction is sent; nothing is
\* sent for an order without one.
C33_SubmitsOnPayloadAlone ==
  (SignerActive /\ signerCalls >= 1 /\ order # None) =>
    /\ (/\ order.payment.status # "crypto-payer-insufficient-funds"
        /\ order.quote.status # "requires-physical-address"
        /\ SerializedTransactionOf(order) # "") =>
         /\ providerOpens = 1
         /\ rpcUrl # ""
         /\ signError \notin {InsufficientFunds, AddressRequired, PayloadMissing(order)}
         /\ Parses(SerializedTransactionOf(order)) => (pc = "pay_send" \/ sendCalls = 1)
    /\ sendCalls >= 1 => SerializedTransactionOf(order) # ""

\* C33 witness: an order whose payment status is 'failed' and that carries a
\* serialized transaction has been sent and confirmed.
C33_Witness ==
  /\ mode = "signer"
  /\ pc = "pay_done"
  /\ order.payment.status = "failed"
  /\ order.payment.preparation = ReadyPreparation
  /\ sendCalls = 1
  /\ receipt \in Receipts

\* The buy run has made no getOrderStatus call, no signer call and no chain call.
NothingAfterOrder ==
  /\ getStatusCalls = 0
  /\ monAttempts = 0
  /\ finalCalls = 0
  /\ signerCalls = 0
  /\ providerOpens = 0
  /\ sendCalls = 0
  /\ waitCalls = 0

\* C34: in a buy run createOrder and the address update are each called at most
\* once; when createOrder fails the run has ended with exit code 1 after that
\* one call, without an address update; when the address update fails the run
\* has ended with exit code 1 after one call of each; and a run that ended with
\* exit code 1 has made no getOrderStatus call, no signer call and no chain call.
C34_OrderFailureAbsorbing ==
  mode = "buy" =>
    /\ createCalls <= 1
    /\ patchCalls <= 1
    /\ (createCalls = 1 /\ createStatus = "") =>
         (pc = "exit1" /\ patchCalls = 0 /\ status = "")
    /\ (patchCalls = 1 /\ status # "valid") =>
         (pc \in {"exit1", "done"} /\ NothingAfterOrder)
    /\ pc = "exit1" =>
         /\ NothingAfterOrder
         /\ createCalls = 1
         /\ paymentLog = ""
         /\ monitorLog = ""
         /\ (createStatus = "" \/
             (createStatus = "requires-physical-address" /\ hasAddress /\ patchCalls = 1))

\* C34 witness: createOrder asked for an address, the one address update failed
\* and the run ended with exit code 1.
C34_Witness ==
  /\ mode = "buy"
  /\ pc = "exit1"
  /\ createStatus = "requires-physical-address"
  /\ patchCalls = 1

\* C35: under every sequence of responses and errors the poller makes one
\* getOrderStatus call per increment of its attempt counter and never more than
\* maxAttempts of them; with maxAttempts zero or below it makes no call, does
\* not sleep, and fails with the timeout error.
C35_CallsWithinBudget ==
  PollerActive =>
    /\ getStatusCalls = attempts
    /\ attempts >= 0
    /\ attempts > 0 => attempts <= maxAttempts
    /\ maxAttempts <= 0 =>
         /\ getStatusCalls = 0
         /\ sleeps = 0
         /\ pc \in {"poll_loop", "poll_done"}
         /\ pc = "poll_done" => (pollError = TimeoutError(maxAttempts) /\ pollResult = None)

\* C35 witness: a caller passed a budget below zero; the poller failed with the
\* timeout error without a call.
C35_Witness ==
  /\ mode = "poller"
  /\ maxAttempts < 0
  /\ pc = "poll_done"
  /\ getStatusCalls = 0
  /\ pollError = TimeoutError(maxAttempts)

\* The poller's current response carries a non-empty serializedTransaction and
\* a payment status that is failed or canceled.
ReadyAndTerminal ==
  /\ PollerActive
  /\ statusResponse.kind = "response"
  /\ statusResponse.order.payment.preparation \in {ReadyPreparation, MalformedPreparation}
  /\ statusResponse.order.payment.status \in {"failed", "canceled"}

\* C36: a response that carries a non-empty serializedTransaction is returned
\* by the poller as its result, with no error, also when its payment status is
\* failed or canceled, on the last attempt as on any other.
C36_ReadyBeforeTerminal ==
  ReadyAndTerminal =>
    /\ pc = "poll_done"
    /\ pollResult = statusResponse
    /\ pollError = None
    /\ sleeps = attempts - 1

\* C36 witness: the second response had payment status 'canceled' and a
\* serialized transaction; the poller returned it.
C36_Witness ==
  /\ mode = "poller"
  /\ ReadyAndTerminal
  /\ attempts = 2
  /\ statusResponse.order.payment.status = "canceled"
  /\ statusResponse.order.payment.preparation = ReadyPreparation
  /\ pollResult = statusResponse

\* C37: in a buy run the poller, the signer and the monitor run, and
\* getOrderStatus or the chain is called, only when the quote status that
\* buyProductWithCrypto returned is exactly 'valid'; with any other returned
\* status the run has ended without such a call.
C37_OnlyValidProceeds ==
  mode = "buy" =>
    /\ (\/ PollerActive \/ SignerActive \/ MonitorActive
        \/ getStatusCalls >= 1 \/ signerCalls >= 1
        \/ providerOpens >= 1 \/ sendCalls >= 1 \/ waitCalls >= 1) =>
         /\ status = "valid"
         /\ createStatus = "valid" \/ (createStatus = "requires-physical-address" /\ patchCalls = 1)
    /\ (status \in CreateQuoteStatuses \ {"valid"} /\ pc # "patch") =>
         /\ pc \in {"done", "exit1"}
         /\ NothingAfterOrder

\* C37 witness: createOrder returned 'expired'; the run ended without an address
\* update and without any further call.
C37_Witness ==
  /\ mode = "buy"
  /\ hasKey
  /\ createStatus = "expired"
  /\ patchCalls = 0
  /\ pc = "done"
  /\ NothingAfterOrder

\* C38: in a buy run the order handed to processPayment is the one of the
\* response the poller returned without an error, and it carries a non-empty
\* serializedTransaction; processPayment is called with it unchanged, and
\* while the signer runs the order stays the same and no getOrderStatus call
\* is made.
C38_SignerGetsPollerSnapshot ==
  [][mode = "buy" =>
       /\ (order' # order /\ order' # None) =>
            /\ pc = "poll_done"
            /\ pc' = "pay_begin"
            /\ pollError = None
            /\ pollResult.kind = "response"
            /\ order' = pollResult.order
            /\ SerializedTransactionOf(order') # ""
            /\ monAttempts = 0
       /\ signerCalls' # signerCalls =>
            /\ order # None
            /\ order' = order
            /\ SerializedTransactionOf(order) # ""
       /\ SignerActive =>
            /\ getStatusCalls' = getStatusCalls
            /\ SignerActive' => order' = order
    ]_vars

\* C38 witness: the poller returned its second response, and the transaction of
\* that order has been sent.
C38_Witness ==
  /\ mode = "buy"
  /\ pc = "pay_wait"
  /\ getStatusCalls = 2
  /\ order \in PollOrders
  /\ SerializedTransactionOf(order) # ""
  /\ sendCalls = 1

\* C39: a buy run prints the "Order Details" report at most once, and only
\* after a monitor observation with payment status 'completed' or phase
\* 'complete' followed by one further getOrderStatus call that succeeded; none
\* is printed when the monitor ran out of attempts, when a monitor call failed
\* or when the further call failed.
C39_ReportAtMostOnce ==
  mode = "buy" =>
    /\ reports <= 1
    /\ (reports = 1) <=> (orderDetails # None)
    /\ reports = 1 =>
         /\ pc = "done"
         /\ TerminalObserved
         /\ finalCalls = 1
         /\ monAttempts >= 1
         /\ monitorLog = "Order Details"
         /\ status = "valid"
    /\ (monLastObs.kind = "error" \/ PendingObserved \/ monAttempts = 0) => reports = 0
    /\ (pc = "done" /\ finalCalls = 0) => reports = 0
    /\ monitorLog \in {"Error checking order status", "Error retrieving final order details"} =>
         reports = 0

\* C39 witness: the third monitor observation had phase 'complete' with the
\* payment still awaited, the further call succeeded and the report was printed.
C39_Witness ==
  /\ mode = "buy"
  /\ pc = "done"
  /\ reports = 1
  /\ monAttempts = 3
  /\ monLastObs.kind = "order"
  /\ monLastObs.phase = "complete"
  /\ monLastObs.paymentStatus = "awaiting-payment"
  /\ orderDetails # None

\* The buy run has ended: the action returned, or exited with code 1.
Terminated == pc \in {"done", "exit1"}

\* Calls a buy run has made so far, against their budgets.
CallBounds ==
  mode = "buy" =>
    /\ createCalls <= 1
    /\ patchCalls <= 1
    /\ maxAttempts = DEFAULT_POLLING_MAX_ATTEMPTS
    /\ PollerCalls <= DEFAULT_POLLING_MAX_ATTEMPTS
    /\ signerCalls <= 1
    /\ sendCalls <= 1
    /\ waitCalls <= 1
    /\ monAttempts <= MonitorMaxAttempts
    /\ finalCalls <= 1
    /\ getStatusCalls <= DEFAULT_POLLING_MAX_ATTEMPTS + MonitorMaxAttempts + 1

\* An upper bound on the steps a buy run still has to take: the rest of the
\* current stage, with two steps (a call and a delay) per remaining attempt of a
\* polling loop, plus every later stage in full.
MonitorRank(p, m) ==
  IF p = "mon_final" THEN 1
  ELSE 2 + 2 * (MonitorMaxAttempts - m) + (IF p = "mon_sleep" THEN 1 ELSE 0)
SignerRank(p) ==
  MonitorRank("mon_loop", 0) + 1 +
    (CASE p = "pay_done" -> 1 [] p = "pay_wait" -> 2 [] p = "pay_send" -> 3
       [] p = "pay_begin" -> 4)
PollerRank(p, a) ==
  SignerRank("pay_begin") + 1 +
    (IF p = "poll_done" THEN 0
     ELSE 1 + 2 * (DEFAULT_POLLING_MAX_ATTEMPTS - a) + (IF p = "poll_sleep" THEN 1 ELSE 0))
Rank ==
  IF Terminated THEN 0
  ELSE IF MonitorActive THEN MonitorRank(pc, monAttempts)
  ELSE IF SignerActive THEN SignerRank(pc)
  ELSE IF PollerActive THEN PollerRank(pc, attempts)
  ELSE PollerRank("poll_loop", 0) + (IF pc = "patch" THEN 1 ELSE 2)

\* C40: when every awaited call eventually returns or fails, every buy run
\* ends, and at no time has it made more than 1 createOrder call, 1 address
\* update, 15 getOrderStatus calls of the poller, 1 transaction submission,
\* 10 getOrderStatus calls of the monitor loop and 1 for the final details.
\* Termination is stated through the bound Rank: it is never negative, every
\* step of a buy run lowers it, and a run that has not ended has a step to
\* take, which the fairness of LiveSpec lets it take.
C40_TerminatesWithinBounds ==
  /\ []CallBounds
  /\ [](mode = "buy" => (Rank >= 0 /\ (Terminated \/ ENABLED Next)))
  /\ [][mode = "buy" => Rank' < Rank]_vars

\* C40 witness: a run that used every budget in full: address update, payload on
\* the 15th poller call, one submission, the stop test on the 10th monitor call
\* and the final call.
C40_Witness ==
  /\ mode = "buy"
  /\ pc = "done"
  /\ patchCalls = 1
  /\ PollerCalls = DEFAULT_POLLING_MAX_ATTEMPTS
  /\ sendCalls = 1
  /\ waitCalls = 1
  /\ monAttempts = MonitorMaxAttempts
  /\ finalCalls = 1
  /\ getStatusCalls = 26

====
